---- MODULE Spec2Model ----
(***************************************************************************)
(* low-runner: the dispatch engine of src/run.go (dispatch, worker and the *)
(* completion watcher) with the pool resize of src/sql.go and the schedule *)
(* writes of src/api.go, the transaction runner runXact of src/sql.go, and *)
(* the job store runInfo of src/run.go, as state machines.                 *)
(*                                                                         *)
(* Goroutines are interleaved one step at a time.  A worker goroutine is   *)
(* "new" from the go statement until its wg.Add(1), and "run" from there   *)
(* until it has delivered its result and called wg.Done().  The ticker may *)
(* fire at any time, so a tick can be received whenever dispatch selects.  *)
(* Workers and watchers carry a label, cur, that is not in the code: it    *)
(* tells the goroutines of the latest batch from those of earlier ones.    *)
(*                                                                         *)
(* Eleven specifications share the variables:                              *)
(*   Spec       dispatch, its workers and watchers, and schedule writes;   *)
(*   BatchSpec  dispatch with no schedule write, each worker in two steps  *)
(*              (runXact, then send and Done), with fairness;              *)
(*   XactSpec   one call of runXact, statement by statement;               *)
(*   StoreSpec  the calls of the job store made by concurrent handlers,    *)
(*              and the range of dispatch over the job map.                *)
(*   WritersSpec the handlers that write the job map, replaceXact of       *)
(*              src/api.go and loadRun of src/unnamed/part_002 included;   *)
(*   IdSpec     genSource of src/sql.go, character by character;           *)
(*   WriteSpec  dispatch with the handlers updateWork and loadRun;         *)
(*   GatherSpec gather of src/run.go;                                      *)
(*   TokenSpec  BatchSpec with the token of src/unnamed/part_000 dispatch;  *)
(*   ResultSpec runXact, the worker's send and gather together;            *)
(*   SchedSpec  dispatch with the handler updateWork alone.                *)
(* Each leaves the variables of the others at their initial values.        *)
(***************************************************************************)
EXTENDS Integers, FiniteSets, Sequences, Bags, TLC

\* ------------------------------------------------------------------ bounds
\* A batch is launched only if it brings the running workers to at most this.
MaxAlive == 4
\* Schedule writes the API may send in one exploration.
MaxCtrl == 2
\* Statements of the job given to one call of runXact.
MaxStmts == 3
\* Calls of the job store made by the API handlers in one exploration.
MaxCalls == 3
\* Statements a stored job may reach by appendXact.
MaxJobLen == 2
\* Statements of the xacts whose ids are compared.
MaxIdStmts == 2
\* Calls of genSource on one xact.
MaxGen == 2
\* Requests the schedule and run handlers receive in one exploration.
MaxReqs == 2
\* Ticks of gather's one-second ticker in one exploration.
MaxTicks == 61
\* Results gather receives in one exploration.
MaxResults == 2

\* --------------------------------------------------------------- constants
\* gather keeps its window below this many samples between two emissions.
WindowCap == 60

\* ----------------------------------------------------------- value domains
\* The jobs of todo.work.xacts (the job store is not modified here).
Jobs == {"j1", "j2"}
\* Worker counts a schedule may carry; 0 is the zero value of the field.
WorkerCounts == {0, 1, 2}
\* MaxConns of the pool handed to dispatch by main.
InitPoolSizes == {4}

NilPool == 0

\* ctrlData values updateWork can build from an accepted payload; a frequency
\* of 0 is the zero value of the field.
CtrlMsgs == [workers : WorkerCounts, frequency : {0, 2}, pause : BOOLEAN]

VARIABLES
    pc,            \* position of the dispatch goroutine
    startPaused,   \* todo.schedule.pause, while no control message has replaced it
    numWorker,     \* dispatch: numWorker
    pause,         \* dispatch: pause
    waitNextTick,  \* dispatch: waitNextTick
    period,        \* period of dispatch's ticker
    pool,          \* dispatch: pool (a handle, or NilPool)
    maxConns,      \* pool.Config().MaxConns of the handle dispatch holds
    openPools,     \* handles of the pools that are not closed
    toLaunch,      \* jobs the range loop of this batch has still to visit
    batchN,        \* numWorker when the launch of the latest batch began
    launched,      \* invocations launched per job in the latest batch
    workers,       \* bag of running worker goroutines
    wg,            \* counter of the wait-group
    watchers,      \* bag of completion watcher goroutines
    nSent,         \* schedule writes delivered on ctrl so far
    reqPause,      \* pause of the last control message dispatch applied
    xpc,           \* runXact: position of the call
    xIn,           \* runXact: what the database answers to this call
    xNext,         \* runXact: index of the next statement of x.Statements
    xOutcome,      \* runXact: res.outcome
    xErr,          \* runXact: the error returned
    xLog,          \* runXact: what was sent on the transaction, in order
    xHeld,         \* runXact: connections of the pool held by the call
    xReleases,     \* runXact: calls of conn.Release()
    store,         \* runInfo.xacts: the job map, key -> xact
    mu,            \* runInfo.m: the handler holding the mutex, or 0
    calls,         \* the call of the store each handler goroutine is in
    nCalls,        \* calls of the store started so far
    ret,           \* the last call of the store that returned, and its result
    ranging,       \* dispatch is inside its range over the job map
    idc,           \* genSource: two xacts and the ids computed for them
    wr,            \* the schedule write and the run load a handler is in
    gth            \* gather: its counters and its window

\* The state of dispatch and of its goroutines.
engineVars == <<pc, startPaused, numWorker, pause, waitNextTick, period, pool,
                maxConns, openPools, toLaunch, batchN, launched,
                workers, wg, watchers, nSent, reqPause>>

\* The state of one call of runXact, followed statement by statement.
xactVars == <<xpc, xIn, xNext, xOutcome, xErr, xLog, xHeld, xReleases>>

\* The job store and the goroutines that use it.
storeVars == <<store, mu, calls, nCalls, ret, ranging>>

\* genSource on its own, the schedule and run handlers, and gather.
otherVars == <<idc, wr, gth>>

\* What the steps of dispatch and of its goroutines leave alone.
libVars == <<xactVars, storeVars, otherVars>>

vars == <<engineVars, libVars>>

dispVars == <<pc, numWorker, pause, waitNextTick, period, pool, maxConns,
              openPools, toLaunch, batchN, launched>>

\* The process is alive: no goroutine has panicked.
Alive == pc # "crashed"

\* No call of runXact is followed.
XactIdle ==
    /\ xpc = "idle"
    /\ xIn = [acquire |-> TRUE, begin |-> TRUE, fails |-> <<>>]
    /\ xNext = 0
    /\ xOutcome = "rollback"
    /\ xErr = "nil"
    /\ xLog = <<>>
    /\ xHeld = 0
    /\ xReleases = 0

\* A handler goroutine that is in no call of the store.
NoCall == [op |-> "idle", pc |-> "idle", id |-> <<>>, x |-> <<>>]

\* No call of the store has returned yet.
NoReturn == [n |-> 0, op |-> "none", id |-> <<>>, res |-> "none", keys |-> {}]

\* HTTP handler goroutines that may be in a call of the store at once.
Handlers == {1, 2}

\* An xact no call of genSource has been made on: id is the zero value.
NoId == <<>>

\* genSource is not followed on its own.
IdIdle == idc = [k \in {"a", "b"} |-> [st |-> <<>>, out |-> "commit", id |-> NoId, n |-> 0]]

\* No handler is in a schedule write or a run load.
NoSched == [workers |-> 0, frequency |-> 0, pause |-> FALSE]

\* todo.Work.Xacts is the map the handlers were given (jobs.Xacts).
SharedWork == [shared |-> TRUE, xacts |-> <<>>]

WriteIdle ==
    wr = [st |-> "idle", req |-> <<>>, msg |-> NoSched, res |-> "none", n |-> 0,
          doc |-> [m |-> "m", sched |-> NoSched, work |-> SharedWork]]

\* gather is not followed.
GatherIdle == gth = [pc |-> "idle"]

OtherIdle == IdIdle /\ WriteIdle /\ GatherIdle

\* The job store is left alone.
StoreIdle ==
    /\ store = <<>>
    /\ mu = 0
    /\ calls = [h \in Handlers |-> NoCall]
    /\ nCalls = 0
    /\ ret = NoReturn
    /\ ranging = FALSE

\* dispatch is about to be called.
EngineInit ==
    /\ pc = "start"
    /\ startPaused \in BOOLEAN
    /\ numWorker \in WorkerCounts
    /\ pause = FALSE
    /\ waitNextTick = TRUE
    /\ period = 1
    /\ pool = 1
    /\ maxConns \in InitPoolSizes
    /\ openPools = {1}
    /\ toLaunch = {}
    /\ batchN = 0
    /\ launched = [j \in Jobs |-> 0]
    /\ workers = EmptyBag
    /\ wg = 0
    /\ watchers = EmptyBag
    /\ nSent = 0
    /\ reqPause = FALSE

Init == EngineInit /\ XactIdle /\ StoreIdle /\ OtherIdle

\* dispatch is left alone: it has not been called.
EngineIdle == EngineInit /\ ~startPaused /\ numWorker = 1

\* ------------------------------------------------------- the dispatch loop

\* dispatch refuses to start with fewer than one worker and returns.
\* Mutant of StartRefused: dispatch enters its loop whatever the worker count.
StartRefusedNever == FALSE

\* The test at the head of dispatch: numWorker < 1.
StartRefused == numWorker < 1

Start ==
    /\ pc = "start"
    /\ pc' = IF StartRefused THEN "returned" ELSE "top"
    /\ UNCHANGED <<startPaused, numWorker, pause, waitNextTick, period, pool,
                   maxConns, openPools, toLaunch, batchN,
                   launched, workers, wg, watchers, nSent, reqPause>>
    /\ UNCHANGED libVars

\* Mutant of ShouldLaunch: the launch is not guarded by pause.
ShouldLaunchAlways == TRUE

\* The test guarding the launch at the head of the outer loop.
ShouldLaunch == ~pause

\* The goroutines of bag B, none of them marked as of the latest batch any more.
Aged(B) ==
    LET S == {[w EXCEPT !.cur = FALSE] : w \in BagToSet(B)}
    IN  [r \in S |-> CopiesIn(r, B) + CopiesIn([r EXCEPT !.cur = TRUE], B)]

\* Invocations the inner loop starts for one job.
SpawnCount == numWorker

\* Head of the outer loop: begin a batch, or go straight to the waiting loop.
LoopTop ==
    /\ pc = "top"
    /\ IF ShouldLaunch
          THEN /\ BagCardinality(workers) + Cardinality(Jobs) * numWorker <= MaxAlive
               /\ pc' = "launch"
               /\ toLaunch' = Jobs
               /\ batchN' = numWorker
               /\ launched' = [j \in Jobs |-> 0]
               /\ workers' = Aged(workers)
               /\ watchers' = Aged(watchers)
               /\ UNCHANGED waitNextTick
          ELSE /\ pc' = "wait"
               /\ waitNextTick' = TRUE
               /\ UNCHANGED <<toLaunch, batchN, launched, workers,
                              watchers>>
    /\ UNCHANGED <<startPaused, numWorker, pause, period, pool, maxConns,
                   openPools, wg, nSent, reqPause>>
    /\ UNCHANGED libVars

\* One iteration of the range loop: go worker(pool, v, wg, res), numWorker times.
LaunchJob(j) ==
    /\ pc = "launch"
    /\ j \in toLaunch
    /\ toLaunch' = toLaunch \ {j}
    /\ launched' = [launched EXCEPT ![j] = SpawnCount]
    /\ workers' = IF SpawnCount > 0
                     THEN workers (+) ([cur |-> TRUE, st |-> "new", pool |-> pool,
                                        err |-> FALSE] :> SpawnCount)
                     ELSE workers
    /\ UNCHANGED <<pc, startPaused, numWorker, pause, waitNextTick, period, pool,
                   maxConns, openPools, batchN, wg, watchers, nSent, reqPause>>
    /\ UNCHANGED libVars

\* After the range loop: start the watcher goroutine, enter the waiting loop.
SpawnWatcher ==
    /\ pc = "launch"
    /\ toLaunch = {}
    /\ watchers' = watchers (+) SetToBag({[cur |-> TRUE, st |-> "wait"]})
    /\ pc' = "wait"
    /\ waitNextTick' = TRUE
    /\ batchN' = 0
    /\ launched' = [j \in Jobs |-> 0]
    /\ UNCHANGED <<startPaused, numWorker, pause, period, pool, maxConns,
                   openPools, toLaunch, workers, wg, nSent, reqPause>>
    /\ UNCHANGED libVars

\* case <-done
RecvDone(w) ==
    /\ pc = "wait"
    /\ BagIn(w, watchers)
    /\ w.st = "send"
    /\ watchers' = watchers (-) SetToBag({w})
    /\ waitNextTick' = FALSE
    /\ UNCHANGED <<pc, startPaused, numWorker, pause, period, pool, maxConns,
                   openPools, toLaunch, batchN, launched,
                   workers, wg, nSent, reqPause>>
    /\ UNCHANGED libVars

\* The test of the tick case: leave the waiting loop or keep waiting.
TickAdvances == ~waitNextTick \/ pause

\* case <-tick.C: the ticker has fired and dispatch receives the tick.
RecvTick ==
    /\ pc = "wait"
    /\ pc' = IF TickAdvances THEN "top" ELSE "wait"
    /\ UNCHANGED <<startPaused, numWorker, pause, waitNextTick, period, pool,
                   maxConns, openPools, toLaunch, batchN,
                   launched, workers, wg, watchers, nSent, reqPause>>
    /\ UNCHANGED libVars

\* Mutant of CtrlReceivable: ctrl is also polled between two jobs of a launch.
CtrlReceivableMidBatch == pc \in {"wait", "launch"}

\* Where dispatch receives from ctrl: in the select of the waiting loop only.
CtrlReceivable == pc = "wait"

\* Mutant of AfterCtrl: the control case does not break out of the waiting loop.
AfterCtrlKeepWaiting == "wait"

\* Where dispatch continues after the control case.
AfterCtrl == "top"

\* Mutant of NewPause: pause is left alone by a message that sets workers or
\* frequency.
NewPauseWhenAlone(msg) ==
    IF msg.workers = 0 /\ msg.frequency = 0 THEN msg.pause ELSE pause

\* The pause flag after a control message.
NewPause(msg) == msg.pause

\* Handles in use: the one dispatch holds and those its workers were given.
UsedPools == {pool} \cup {w.pool : w \in BagToSet(workers)}

\* The handle of a newly connected pool: one that no goroutine holds.
FreshPool == CHOOSE p \in 1..(Cardinality(UsedPools) + 1) : p \notin UsedPools

\* updatePoolConfig: the old pool is closed, then a pool of the new size is
\* connected; when that fails the caller receives nil.
UpdatePoolConfig(n, ok) ==
    /\ openPools' = IF ok THEN (openPools \ {pool}) \cup {FreshPool}
                          ELSE openPools \ {pool}
    /\ pool' = IF ok THEN FreshPool ELSE NilPool
    /\ maxConns' = IF ok THEN n ELSE 0

\* case newSched := <-ctrl.  ctrl is unbuffered: updateWork's send and this
\* receive are one rendezvous, newSched being the value updateWork built.
ApplyCtrl(newSched) ==
    /\ CtrlReceivable
    /\ nSent < MaxCtrl
    /\ nSent' = nSent + 1
    /\ IF newSched.workers > 0 /\ pool = NilPool
          THEN \* pool.Config() on a nil pool panics
               /\ pc' = "crashed"
               /\ numWorker' = newSched.workers
               /\ UNCHANGED <<pause, period, pool, maxConns, openPools,
                              reqPause>>
          ELSE /\ numWorker' = IF newSched.workers > 0 THEN newSched.workers
                                                       ELSE numWorker
               /\ IF newSched.workers > 0 /\ maxConns # newSched.workers
                     THEN \E ok \in BOOLEAN : UpdatePoolConfig(newSched.workers, ok)
                     ELSE UNCHANGED <<pool, maxConns, openPools>>
               /\ period' = IF newSched.frequency > 0 THEN newSched.frequency
                                                      ELSE period
               /\ pause' = NewPause(newSched)
               /\ reqPause' = newSched.pause
               /\ pc' = AfterCtrl
    /\ startPaused' = FALSE
    /\ UNCHANGED <<waitNextTick, toLaunch, batchN, launched, workers, wg,
                   watchers>>

\* A schedule write whose handler is not followed: only its message is.
RecvCtrl(newSched) == ApplyCtrl(newSched) /\ UNCHANGED libVars

\* ------------------------------------------------------------ the workers
OneOf(w) == SetToBag({w})

\* wg.Add(1), the first statement of the worker goroutine.
WorkerAdd(w) ==
    /\ Alive
    /\ BagIn(w, workers)
    /\ w.st = "new"
    /\ workers' = (workers (-) OneOf(w)) (+) OneOf([w EXCEPT !.st = "run"])
    /\ wg' = wg + 1
    /\ UNCHANGED <<dispVars, startPaused, watchers, nSent, reqPause>>
    /\ UNCHANGED libVars

\* How a call of runXact can end: an error from pool.Acquire, an error from
\* conn.Begin, or a transaction that was run to its end.
XactEnds == {"acquire", "begin", "ran"}

\* Mutant of WorkerDelivers: a worker whose runXact failed returns at once.
WorkerDeliversOnSuccess(w) == ~w.err

\* After runXact the worker sends its result and calls wg.Done(), error or not.
WorkerDelivers(w) == TRUE

\* The worker in one step: runXact, results <- r, wg.Done().  Acquire on a nil
\* pool panics.
WorkerRun(w) ==
    /\ Alive
    /\ BagIn(w, workers)
    /\ w.st = "run"
    /\ IF w.pool = NilPool
          THEN /\ pc' = "crashed"
               /\ UNCHANGED <<workers, wg>>
          ELSE /\ workers' = workers (-) OneOf(w)
               /\ wg' = IF WorkerDelivers(w) THEN wg - 1 ELSE wg
               /\ UNCHANGED pc
    /\ UNCHANGED <<startPaused, numWorker, pause, waitNextTick, period, pool,
                   maxConns, openPools, toLaunch, batchN,
                   launched, watchers, nSent, reqPause>>
    /\ UNCHANGED libVars

\* The worker in two steps.  First r, err := runXact(job, pool), which ends in
\* one of XactEnds; the worker then holds the result, with or without an error.
WorkerRunXact(w, end) ==
    /\ Alive
    /\ BagIn(w, workers)
    /\ w.st = "run"
    /\ w.pool # NilPool
    /\ workers' = (workers (-) OneOf(w))
                     (+) OneOf([w EXCEPT !.st = "res", !.err = (end # "ran")])
    /\ UNCHANGED <<dispVars, startPaused, wg, watchers, nSent, reqPause>>
    /\ UNCHANGED libVars

\* Then results <- r, received by gather, and wg.Done().
WorkerSend(w) ==
    /\ Alive
    /\ BagIn(w, workers)
    /\ w.st = "res"
    /\ workers' = workers (-) OneOf(w)
    /\ wg' = IF WorkerDelivers(w) THEN wg - 1 ELSE wg
    /\ UNCHANGED <<dispVars, startPaused, watchers, nSent, reqPause>>
    /\ UNCHANGED libVars

\* wg.Wait() of a watcher returns when the counter is zero.
WatcherWait(w) ==
    /\ Alive
    /\ BagIn(w, watchers)
    /\ w.st = "wait"
    /\ wg = 0
    /\ watchers' = (watchers (-) OneOf(w)) (+) OneOf([w EXCEPT !.st = "send"])
    /\ UNCHANGED <<dispVars, startPaused, workers, wg, nSent, reqPause>>
    /\ UNCHANGED libVars

Next ==
    \/ Start
    \/ LoopTop
    \/ \E j \in Jobs : LaunchJob(j)
    \/ SpawnWatcher
    \/ \E w \in BagToSet(watchers) : RecvDone(w)
    \/ RecvTick
    \/ \E msg \in CtrlMsgs : RecvCtrl(msg)
    \/ \E w \in BagToSet(workers) : WorkerAdd(w)
    \/ \E w \in BagToSet(workers) : WorkerRun(w)
    \/ \E w \in BagToSet(watchers) : WatcherWait(w)

Spec == Init /\ [][Next]_vars

\* ------------------------------------------- a schedule that is left alone
\* dispatch with no schedule write, its workers taken in two steps.
BatchNext ==
    \/ Start
    \/ LoopTop
    \/ \E j \in Jobs : LaunchJob(j)
    \/ SpawnWatcher
    \/ \E w \in BagToSet(watchers) : RecvDone(w)
    \/ RecvTick
    \/ \E w \in BagToSet(workers) : WorkerAdd(w)
    \/ \E w \in BagToSet(workers), end \in XactEnds : WorkerRunXact(w, end)
    \/ \E w \in BagToSet(workers) : WorkerSend(w)
    \/ \E w \in BagToSet(watchers) : WatcherWait(w)

\* Every goroutine that can run keeps running: runXact returns, gather receives
\* the results, the ticker fires.  select takes a case that is ready again and
\* again, and wg.Wait() is released whenever the counter reaches zero.
BatchFairness ==
    /\ WF_vars(Start \/ LoopTop \/ SpawnWatcher \/ \E j \in Jobs : LaunchJob(j))
    /\ WF_vars(RecvTick)
    /\ SF_vars(\E w \in BagToSet(watchers) : RecvDone(w))
    /\ SF_vars(\E w \in BagToSet(watchers) : WatcherWait(w))
    /\ WF_vars(\E w \in BagToSet(workers) : WorkerAdd(w))
    /\ WF_vars(\E w \in BagToSet(workers), end \in XactEnds : WorkerRunXact(w, end))
    /\ WF_vars(\E w \in BagToSet(workers) : WorkerSend(w))

BatchSpec == Init /\ [][BatchNext]_vars /\ BatchFairness

\* ------------------------------------------------------------------ runXact
\* One call of runXact(x, pool), step by step.  xIn is what the database
\* answers: whether Acquire and Begin succeed, and for each statement of
\* x.Statements whether runStatement returns an error.

\* Boolean sequences of length n.
BoolSeqs(n) == [1..n -> BOOLEAN]

XactInputs ==
    [acquire : BOOLEAN, begin : BOOLEAN,
     fails : UNION {BoolSeqs(n) : n \in 0..MaxStmts}]

\* Mutant of InitialOutcome: the result is created with outcome NotRun.
InitialOutcomeNotRun == "notrun"

\* res.outcome of the xactResult runXact creates.
InitialOutcome == "rollback"

XactInit ==
    /\ xpc = "acquire"
    /\ xIn \in XactInputs
    /\ xNext = 0
    /\ xOutcome = InitialOutcome
    /\ xErr = "nil"
    /\ xLog = <<>>
    /\ xHeld = 0
    /\ xReleases = 0

\* conn, err := pool.Acquire(ctxTimeout); on error, return res, err.
XAcquire ==
    /\ xpc = "acquire"
    /\ IF xIn.acquire
          THEN /\ xHeld' = xHeld + 1
               /\ xpc' = "begin"
               /\ UNCHANGED xErr
          ELSE /\ xErr' = "acquire"
               /\ xpc' = "returned"
               /\ UNCHANGED xHeld
    /\ UNCHANGED <<xIn, xNext, xOutcome, xLog, xReleases, engineVars, storeVars, otherVars>>

\* Mutant of AfterBeginError: conn.Release() is deferred after Begin only.
AfterBeginErrorNoRelease == "returned"

\* Where a call goes when Begin fails: it returns through the deferred Release.
AfterBeginError == "release"

\* Mutant of OutcomeAtBegin: res.outcome = Commit is set before Begin is tried.
OutcomeCommitEarly(ok) == "commit"

\* res.outcome once Begin has answered: Commit is set only after the error test.
OutcomeAtBegin(ok) == IF ok THEN "commit" ELSE xOutcome

\* tx, err := conn.Begin(...); on error, return res, err; res.outcome = Commit.
XBegin ==
    /\ xpc = "begin"
    /\ xOutcome' = OutcomeAtBegin(xIn.begin)
    /\ IF xIn.begin
          THEN /\ xpc' = "stmts"
               /\ xNext' = 1
               /\ UNCHANGED xErr
          ELSE /\ xErr' = "begin"
               /\ xpc' = AfterBeginError
               /\ UNCHANGED xNext
    /\ UNCHANGED <<xIn, xLog, xHeld, xReleases, engineVars, storeVars, otherVars>>

\* Mutant of OutcomeAfter: the outcome follows the last statement run.
OutcomeOfLast(outcome, failed) == IF failed THEN "rollback" ELSE "commit"

\* res.outcome after a statement: a failure sets Rollback, a success nothing.
OutcomeAfter(outcome, failed) == IF failed THEN "rollback" ELSE outcome

\* One iteration of the range over x.Statements: runStatement(s, tx).
XStatement ==
    /\ xpc = "stmts"
    /\ xNext <= Len(xIn.fails)
    /\ xLog' = Append(xLog, <<"stmt", xNext>>)
    /\ xOutcome' = OutcomeAfter(xOutcome, xIn.fails[xNext])
    /\ xNext' = xNext + 1
    /\ UNCHANGED <<xpc, xIn, xErr, xHeld, xReleases, engineVars, storeVars, otherVars>>

\* Mutant of Terminator: the transaction is always committed.
TerminatorCommit(outcome) == "commit"

\* switch res.outcome: tx.Commit for Commit, tx.Rollback for Rollback.
Terminator(outcome) == outcome

\* After the last statement: the switch, then return res, nil.
XFinish ==
    /\ xpc = "stmts"
    /\ xNext > Len(xIn.fails)
    /\ xLog' = Append(xLog, <<Terminator(xOutcome), 0>>)
    /\ xpc' = "release"
    /\ UNCHANGED <<xIn, xNext, xOutcome, xErr, xHeld, xReleases, engineVars, storeVars, otherVars>>

\* The deferred conn.Release(), run when the call returns.
XRelease ==
    /\ xpc = "release"
    /\ xHeld' = xHeld - 1
    /\ xReleases' = xReleases + 1
    /\ xpc' = "returned"
    /\ UNCHANGED <<xIn, xNext, xOutcome, xErr, xLog, engineVars, storeVars, otherVars>>

XactNext == XAcquire \/ XBegin \/ XStatement \/ XFinish \/ XRelease

\* A call of runXact begins; dispatch and the store are left alone.
XactStart == EngineIdle /\ XactInit /\ StoreIdle /\ OtherIdle

XactSpec == XactStart /\ [][XactNext]_vars

\* ---------------------------------------------------------- the job store
\* runInfo of src/run.go, called by the handler goroutines of the API while
\* dispatch ranges over the same map.  A call is followed from its first read
\* of the map to its return; a handler makes one call after the other.

\* Statement texts a payload may carry.
Texts == {"a", "a;", "b"}

\* genSource on one statement: trailing white space is cut, and ";" is added
\* unless the text ends with it.
Norm(t) == CASE t = "a" -> "a;" [] t = "a;" -> "a;" [] t = "b" -> "b;"

\* strings.ToUpper of an outcome.
Upper(o) == CASE o = "commit" -> "COMMIT" [] o = "rollback" -> "ROLLBACK"

\* genSource: the id of an xact is the SHA-1 of its source, that is of "BEGIN;",
\* the normalised statements and the outcome in upper case.  The digest is
\* taken as injective, so the id is given by what the source is built from.
GenId(x) == <<[i \in 1..Len(x.st) |-> Norm(x.st[i])], Upper(x.out)>>

\* newXact: the xact of a payload's statements, with outcome Commit.
NewXact(sql) == [st |-> sql, out |-> "commit"]

\* Statement lists of the payloads the handlers receive ("a" is the statement
\* of an initial job).
Payloads == {<<>>, <<"a;">>, <<"b">>}

\* Job lists the program may start with (run file or default work).
InitialJobLists ==
    {<<>>,
     <<[st |-> <<"a">>, out |-> "commit"]>>,
     <<[st |-> <<"a">>, out |-> "commit"], [st |-> <<"b">>, out |-> "rollback"]>>}

\* newRunInfo: r.xacts[x.Id] = x for each xact of the list.
NewRunInfo(list) ==
    LET ids == {GenId(list[i]) : i \in 1..Len(list)}
    IN  [k \in ids |-> list[CHOOSE i \in 1..Len(list) : GenId(list[i]) = k]]

StoreInit ==
    /\ store \in {NewRunInfo(l) : l \in InitialJobLists}
    /\ mu = 0
    /\ calls = [h \in Handlers |-> NoCall]
    /\ nCalls = 0
    /\ ret = NoReturn
    /\ ranging = FALSE

\* Ids a request may name: those of the stored jobs and of the payloads.
RequestIds == DOMAIN store \cup {GenId(NewXact(p)) : p \in Payloads}

\* Mutant of Without: nothing is deleted.
Kept(m, k) == m

\* delete(m, k): the map with key k deleted.
Without(m, k) == [j \in DOMAIN m \ {k} |-> m[j]]

\* m[k] = x: the map with key k set to x.
With(m, k, x) == [j \in DOMAIN m \cup {k} |-> IF j = k THEN x ELSE m[j]]

\* A handler enters a call: a handler that is in none, within the bound.
CanCall(h) == calls[h] = NoCall /\ nCalls < MaxCalls

\* The call returns res to its handler.
Return(h, op, id, res, keys) ==
    /\ ret' = [n |-> ret.n + 1, op |-> op, id |-> id, res |-> res, keys |-> keys]
    /\ calls' = [calls EXCEPT ![h] = NoCall]

\* get: one read of the map, with no lock.
Get(h, id) ==
    /\ CanCall(h)
    /\ nCalls' = nCalls + 1
    /\ Return(h, "get", id, IF id \in DOMAIN store THEN "ok" ELSE "notfound", {})
    /\ UNCHANGED <<store, mu, ranging, engineVars, xactVars, otherVars>>

\* getAllXacts: the handler ranges over the map, with no lock.
List(h) ==
    /\ CanCall(h)
    /\ nCalls' = nCalls + 1
    /\ Return(h, "list", <<>>, "ok", DOMAIN store)
    /\ UNCHANGED <<store, mu, ranging, engineVars, xactVars, otherVars>>

\* Mutant of AddConflicts: add never refuses.
AddNeverConflicts(id) == FALSE

\* The test of add: the id is already a key of the map.
AddConflicts(id) == id \in DOMAIN store

\* add, up to its test: the map is read with no lock.
AddCheck(h, sql) ==
    /\ CanCall(h)
    /\ nCalls' = nCalls + 1
    /\ LET x == NewXact(sql)
       IN IF AddConflicts(GenId(x))
             THEN Return(h, "add", GenId(x), "exists", {})
             ELSE /\ calls' = [calls EXCEPT ![h] =
                                 [op |-> "add", pc |-> "lock", id |-> GenId(x), x |-> x]]
                  /\ UNCHANGED ret
    /\ UNCHANGED <<store, mu, ranging, engineVars, xactVars, otherVars>>

\* remove, up to its test: the map is read with no lock.
RemoveCheck(h, id) ==
    /\ CanCall(h)
    /\ nCalls' = nCalls + 1
    /\ IF id \notin DOMAIN store
          THEN Return(h, "remove", id, "notfound", {})
          ELSE /\ calls' = [calls EXCEPT ![h] =
                              [op |-> "remove", pc |-> "lock", id |-> id, x |-> <<>>]]
               /\ UNCHANGED ret
    /\ UNCHANGED <<store, mu, ranging, engineVars, xactVars, otherVars>>

\* cur with the statements of the payload appended.
Appended(cur, sql) == [cur EXCEPT !.st = cur.st \o sql]

\* appendXact, up to genSource: the map is read with no lock, the statements
\* are appended to the copy and its id is computed again.
AppendCheck(h, id, sql) ==
    /\ CanCall(h)
    /\ nCalls' = nCalls + 1
    /\ IF id \notin DOMAIN store
          THEN Return(h, "append", id, "notfound", {})
          ELSE /\ Len(store[id].st) + Len(sql) <= MaxJobLen
               /\ calls' = [calls EXCEPT ![h] =
                              [op |-> "append", pc |-> "lock", id |-> id,
                               x |-> Appended(store[id], sql)]]
               /\ UNCHANGED ret
    /\ UNCHANGED <<store, mu, ranging, engineVars, xactVars, otherVars>>

\* r.m.Lock()
Lock(h) ==
    /\ calls[h].pc = "lock"
    /\ mu = 0
    /\ mu' = h
    /\ calls' = [calls EXCEPT ![h].pc = "write"]
    /\ UNCHANGED <<store, nCalls, ret, ranging, engineVars, xactVars, otherVars>>

\* add: r.xacts[x.Id] = x, Unlock, return nil.
AddWrite(h) ==
    /\ calls[h].op = "add" /\ calls[h].pc = "write"
    /\ store' = With(store, calls[h].id, calls[h].x)
    /\ mu' = 0
    /\ Return(h, "add", calls[h].id, "ok", {})
    /\ UNCHANGED <<nCalls, ranging, engineVars, xactVars, otherVars>>

\* remove: delete(r.xacts, xid), Unlock, return nil.
RemoveWrite(h) ==
    /\ calls[h].op = "remove" /\ calls[h].pc = "write"
    /\ store' = Without(store, calls[h].id)
    /\ mu' = 0
    /\ Return(h, "remove", calls[h].id, "ok", {})
    /\ UNCHANGED <<nCalls, ranging, engineVars, xactVars, otherVars>>

\* appendXact: delete(r.xacts, xid)
AppendDelete(h) ==
    /\ calls[h].op = "append" /\ calls[h].pc = "write"
    /\ store' = Without(store, calls[h].id)
    /\ calls' = [calls EXCEPT ![h].pc = "insert"]
    /\ UNCHANGED <<mu, nCalls, ret, ranging, engineVars, xactVars, otherVars>>

\* Mutant of NewKey: cur.genSource() is left out, cur.Id is still the old id.
StaleKey(h) == calls[h].id

\* cur.Id after cur.genSource(): the id of the xact with its new statements.
NewKey(h) == GenId(calls[h].x)

\* appendXact: r.xacts[cur.Id] = cur, Unlock, return cur, nil.
AppendInsert(h) ==
    /\ calls[h].op = "append" /\ calls[h].pc = "insert"
    /\ store' = With(store, NewKey(h), calls[h].x)
    /\ mu' = 0
    /\ Return(h, "append", calls[h].id, "ok", {})
    /\ UNCHANGED <<nCalls, ranging, engineVars, xactVars, otherVars>>

\* dispatch enters its range over todo.work.xacts; it takes no lock.
RangeBegin ==
    /\ ~ranging
    /\ ranging' = TRUE
    /\ UNCHANGED <<store, mu, calls, nCalls, ret, engineVars, xactVars, otherVars>>

\* dispatch leaves the range.
RangeEnd ==
    /\ ranging
    /\ ranging' = FALSE
    /\ UNCHANGED <<store, mu, calls, nCalls, ret, engineVars, xactVars, otherVars>>

StoreNext ==
    \/ \E h \in Handlers, id \in RequestIds : Get(h, id)
    \/ \E h \in Handlers : List(h)
    \/ \E h \in Handlers, sql \in Payloads : AddCheck(h, sql)
    \/ \E h \in Handlers, id \in RequestIds : RemoveCheck(h, id)
    \/ \E h \in Handlers, id \in RequestIds, sql \in Payloads : AppendCheck(h, id, sql)
    \/ \E h \in Handlers : Lock(h)
    \/ \E h \in Handlers : AddWrite(h)
    \/ \E h \in Handlers : RemoveWrite(h)
    \/ \E h \in Handlers : AppendDelete(h)
    \/ \E h \in Handlers : AppendInsert(h)
    \/ RangeBegin
    \/ RangeEnd

\* The store as newRunInfo built it; dispatch and runXact are left alone.
StoreStart == EngineIdle /\ XactIdle /\ StoreInit /\ OtherIdle

StoreSpec == StoreStart /\ [][StoreNext]_vars

\* ------------------------------------------------------------ replaceXact
\* The PUT handler of src/api.go: jobs.remove(id), then jobs.add(x) with the
\* xact of the payload.

\* remove, up to its test.
ReplaceCheck(h, id, sql) ==
    /\ CanCall(h)
    /\ nCalls' = nCalls + 1
    /\ IF id \notin DOMAIN store
          THEN Return(h, "replace", id, "notfound", {})
          ELSE /\ calls' = [calls EXCEPT ![h] =
                              [op |-> "replace", pc |-> "lock", id |-> id,
                               x |-> NewXact(sql)]]
               /\ UNCHANGED ret
    /\ UNCHANGED <<store, mu, ranging, engineVars, xactVars, otherVars>>

\* remove: delete(r.xacts, xid), Unlock, return nil to replaceXact.
ReplaceDelete(h) ==
    /\ calls[h].op = "replace" /\ calls[h].pc = "write"
    /\ store' = Without(store, calls[h].id)
    /\ mu' = 0
    /\ calls' = [calls EXCEPT ![h].pc = "test"]
    /\ UNCHANGED <<nCalls, ret, ranging, engineVars, xactVars, otherVars>>

\* add, up to its test; on a conflict replaceXact answers with the error.
ReplaceTest(h) ==
    /\ calls[h].op = "replace" /\ calls[h].pc = "test"
    /\ IF AddConflicts(GenId(calls[h].x))
          THEN Return(h, "replace", calls[h].id, "exists", {})
          ELSE /\ calls' = [calls EXCEPT ![h].pc = "lock2"]
               /\ UNCHANGED ret
    /\ UNCHANGED <<store, mu, nCalls, ranging, engineVars, xactVars, otherVars>>

\* add: r.m.Lock()
ReplaceLock(h) ==
    /\ calls[h].op = "replace" /\ calls[h].pc = "lock2"
    /\ mu = 0
    /\ mu' = h
    /\ calls' = [calls EXCEPT ![h].pc = "write2"]
    /\ UNCHANGED <<store, nCalls, ret, ranging, engineVars, xactVars, otherVars>>

\* add: r.xacts[x.Id] = x, Unlock, return nil; replaceXact answers 200.
ReplaceInsert(h) ==
    /\ calls[h].op = "replace" /\ calls[h].pc = "write2"
    /\ store' = With(store, GenId(calls[h].x), calls[h].x)
    /\ mu' = 0
    /\ Return(h, "replace", calls[h].id, "ok", {})
    /\ UNCHANGED <<nCalls, ranging, engineVars, xactVars, otherVars>>

\* Job lists of the run documents loadRun receives.
LoadedJobLists == {<<[st |-> <<"b">>, out |-> "rollback"]>>}

\* loadRun: the run document of the request is bound (runInfo.UnmarshalJSON
\* makes a new map and keys every xact by the id genSource gives it) and
\* assigned over *todo.  jobs, the runInfo runApi copied from todo.Work for
\* the handlers of the store, still holds the map it was copied with.
LoadRun(h, list) ==
    /\ CanCall(h)
    /\ nCalls' = nCalls + 1
    /\ wr' = [wr EXCEPT !.doc.m = "nil",
                        !.doc.work = [shared |-> FALSE, xacts |-> NewRunInfo(list)]]
    /\ Return(h, "load", <<>>, "ok", {})
    /\ UNCHANGED <<store, mu, ranging, engineVars, xactVars, idc, gth>>

\* The map dispatch ranges over: todo.Work.Xacts.
TodoXacts == IF wr.doc.work.shared THEN store ELSE wr.doc.work.xacts

\* The handlers that write the job map: add, remove, append, replace, load.
WritersNext ==
    \/ \E h \in Handlers, sql \in Payloads : AddCheck(h, sql)
    \/ \E h \in Handlers, id \in RequestIds : RemoveCheck(h, id)
    \/ \E h \in Handlers, id \in RequestIds, sql \in Payloads : AppendCheck(h, id, sql)
    \/ \E h \in Handlers : Lock(h)
    \/ \E h \in Handlers : AddWrite(h)
    \/ \E h \in Handlers : RemoveWrite(h)
    \/ \E h \in Handlers : AppendDelete(h)
    \/ \E h \in Handlers : AppendInsert(h)
    \/ \E h \in Handlers, id \in RequestIds, sql \in Payloads : ReplaceCheck(h, id, sql)
    \/ \E h \in Handlers : ReplaceDelete(h)
    \/ \E h \in Handlers : ReplaceTest(h)
    \/ \E h \in Handlers : ReplaceLock(h)
    \/ \E h \in Handlers : ReplaceInsert(h)
    \/ \E h \in Handlers, list \in LoadedJobLists : LoadRun(h, list)

WritersSpec == StoreStart /\ [][WritersNext]_vars

\* -------------------------------------------------------------- genSource
\* genSource of src/sql.go on texts taken character by character.  A text is
\* a sequence of characters, a source a sequence of characters and of the
\* literal pieces genSource writes.

\* Statement texts a payload or a run file may carry.
IdTexts == {<<"s">>, <<"s", ";">>, <<"s", " ">>, <<"s", ";", "\n", "s">>, <<"t">>}

\* The cutset of strings.TrimRight in genSource, within the characters used.
CutSet == {"\n", "\r", "\t", " "}

RECURSIVE TrimRight(_)
\* strings.TrimRight(s.Text, "\n\r\t ")
TrimRight(t) ==
    IF t # <<>> /\ t[Len(t)] \in CutSet THEN TrimRight(SubSeq(t, 1, Len(t) - 1))
                                        ELSE t

\* strings.HasSuffix(s.Text, ";")
HasSuffix(t) == t # <<>> /\ t[Len(t)] = ";"

\* The text of one statement as genSource writes it to the source.
StmtText(t) == IF HasSuffix(TrimRight(t)) THEN TrimRight(t)
                                          ELSE Append(TrimRight(t), ";")

RECURSIVE AddStmts(_, _)
\* The loop of genSource: src = src + "\n" + s.Text, statement by statement.
AddStmts(src, stmts) ==
    IF stmts = <<>> THEN src
    ELSE AddStmts(src \o <<"\n">> \o StmtText(Head(stmts)), Tail(stmts))

\* x.source as genSource leaves it.
SourceOf(x) == AddStmts(<<"BEGIN;">>, x.st) \o <<"\n", Upper(x.out), ";">>

\* sha1.Sum in hexadecimal; the digest is taken as injective.
Sha1(src) == src

RECURSIVE SeqsUpTo(_, _)
\* The sequences of at most n elements of S.
SeqsUpTo(S, n) ==
    IF n = 0 THEN {<<>>}
    ELSE SeqsUpTo(S, n - 1) \cup
         {Append(q, e) : q \in {r \in SeqsUpTo(S, n - 1) : Len(r) = n - 1}, e \in S}

\* Two xacts as newXact or UnmarshalJSON fill them before calling genSource.
IdInit ==
    idc \in [{"a", "b"} -> [st : SeqsUpTo(IdTexts, MaxIdStmts),
                           out : {"commit", "rollback"},
                           id : {NoId}, n : {0}]]

\* x.genSource()
GenSource(k) ==
    /\ idc[k].n < MaxGen
    /\ idc' = [idc EXCEPT ![k].id = Sha1(SourceOf(idc[k])), ![k].n = @ + 1]
    /\ UNCHANGED <<engineVars, xactVars, storeVars, wr, gth>>

IdNext == \E k \in {"a", "b"} : GenSource(k)

IdStart == EngineIdle /\ XactIdle /\ StoreIdle /\ IdInit /\ WriteIdle /\ GatherIdle

IdSpec == IdStart /\ [][IdNext]_vars

\* ------------------------------------------- schedule writes and run loads
\* updateWork of src/api.go and loadRun of src/unnamed/part_002, one request
\* at a time, with dispatch and its goroutines.  wr.doc is the run document
\* *todo: the lock it carries and its schedule.

\* The frequency field of a schedule payload.
FreqTexts == {"", "2s", "x"}

\* time.ParseDuration on the texts above.
ParseDuration(t) == CASE t = "2s" -> [err |-> FALSE, d |-> 2]
                      [] t = "x"  -> [err |-> TRUE, d |-> 0]

\* apiWork values c.Bind may produce.
ApiWorks == [workers : {0, 2}, frequency : FreqTexts, pause : BOOLEAN]

\* Run documents c.Bind may produce in loadRun: newr := run{} has no lock.
LoadedRuns ==
    [m : {"nil"}, sched : [workers : {0, 2}, frequency : {2}, pause : {TRUE}],
     work : {[shared |-> FALSE, xacts |-> <<>>]}]

\* The run document main hands to dispatch and runApi.
WriteInit ==
    wr = [st |-> "idle", req |-> <<>>, msg |-> NoSched, res |-> "none", n |-> 0,
          doc |-> [m |-> "m",
                   sched |-> [workers |-> numWorker, frequency |-> period,
                              pause |-> startPaused],
                   work |-> SharedWork]]

\* updateWork up to its send: the payload is bound, the frequency parsed.
UpdateWork(aw) ==
    /\ wr.st = "idle" /\ wr.n < MaxReqs
    /\ IF aw.frequency # "" /\ ParseDuration(aw.frequency).err
          THEN wr' = [wr EXCEPT !.res = "bad", !.n = @ + 1]
          ELSE wr' = [wr EXCEPT !.st = "sending", !.req = aw, !.n = @ + 1,
                                !.res = "none",
                                !.msg = [workers |-> aw.workers,
                                         frequency |-> IF aw.frequency = "" THEN 0
                                                       ELSE ParseDuration(aw.frequency).d,
                                         pause |-> aw.pause]]
    /\ UNCHANGED <<engineVars, xactVars, storeVars, idc, gth>>

\* ctrl <- w meets case newSched := <-ctrl.
RecvWrite ==
    /\ wr.st = "sending"
    /\ ApplyCtrl(wr.msg)
    /\ wr' = [wr EXCEPT !.st = "sent"]
    /\ UNCHANGED <<xactVars, storeVars, idc, gth>>

\* updateWork: return c.JSON(http.StatusOK, ...)
WriteReturn ==
    /\ wr.st = "sent"
    /\ wr' = [wr EXCEPT !.st = "idle", !.res = "ok", !.req = <<>>, !.msg = NoSched]
    /\ UNCHANGED <<engineVars, xactVars, storeVars, idc, gth>>

\* loadRun up to mx.Lock(): mx is a mutex of runApi that only loadRun takes.
LoadRunBind(newr) ==
    /\ wr.st = "idle" /\ wr.n < MaxReqs
    /\ wr' = [wr EXCEPT !.st = "load", !.req = newr, !.n = @ + 1, !.res = "none"]
    /\ UNCHANGED <<engineVars, xactVars, storeVars, idc, gth>>

\* loadRun: *r = newr, mx.Unlock(), return c.JSON(http.StatusOK, r)
LoadRunAssign ==
    /\ wr.st = "load"
    /\ wr' = [wr EXCEPT !.st = "idle", !.res = "ok", !.doc = wr.req, !.req = <<>>]
    /\ UNCHANGED <<engineVars, xactVars, storeVars, idc, gth>>

WriteNext ==
    \/ Start
    \/ LoopTop
    \/ \E j \in Jobs : LaunchJob(j)
    \/ SpawnWatcher
    \/ \E w \in BagToSet(watchers) : RecvDone(w)
    \/ RecvTick
    \/ \E w \in BagToSet(workers) : WorkerAdd(w)
    \/ \E w \in BagToSet(workers) : WorkerRun(w)
    \/ \E w \in BagToSet(watchers) : WatcherWait(w)
    \/ \E aw \in ApiWorks : UpdateWork(aw)
    \/ RecvWrite
    \/ WriteReturn
    \/ \E newr \in LoadedRuns : LoadRunBind(newr)
    \/ LoadRunAssign

\* dispatch with the schedule handler alone: no run is loaded.
SchedNext ==
    \/ Start
    \/ LoopTop
    \/ \E j \in Jobs : LaunchJob(j)
    \/ SpawnWatcher
    \/ \E w \in BagToSet(watchers) : RecvDone(w)
    \/ RecvTick
    \/ \E w \in BagToSet(workers) : WorkerAdd(w)
    \/ \E w \in BagToSet(workers) : WorkerRun(w)
    \/ \E w \in BagToSet(watchers) : WatcherWait(w)
    \/ \E aw \in ApiWorks : UpdateWork(aw)
    \/ RecvWrite
    \/ WriteReturn

WriteStart ==
    EngineInit /\ XactIdle /\ StoreIdle /\ IdIdle /\ WriteInit /\ GatherIdle

WriteSpec == WriteStart /\ [][WriteNext]_vars

SchedSpec == WriteStart /\ [][SchedNext]_vars

\* ----------------------------------------------------------------- gather
\* gather of src/run.go.  gth.count, gth.xacts and gth.failures are its
\* variables, gth.log the line it printed last (instant count, sum and length
\* of the window, number of failures).  gth.recv counts the results received,
\* gth.last is the outcome of the latest one, gth.hist lists every sample in
\* order and gth.shown is the window as it was when the line was printed:
\* these four are not in the code.

\* Outcomes a result may carry.
ResultOutcomes == {"commit", "rollback"}

RECURSIVE SumSeq(_)
\* for _, v := range xacts { sum += float64(v) }
SumSeq(q) == IF q = <<>> THEN 0 ELSE Head(q) + SumSeq(Tail(q))

\* Mutant of WindowFull: the window is cut one sample later.
WindowOver(n) == n > WindowCap

\* The test that cuts the window: len(xacts) >= 60.
WindowFull(n) == n >= WindowCap

\* Mutant of IsFailure: every result is counted in the one-second counter.
IsFailureNever(o) == FALSE

\* res.outcome == Rollback
IsFailure(o) == o = "rollback"

GatherInit ==
    gth = [pc |-> "select", count |-> 0, xacts |-> <<>>, failures |-> <<>>,
           log |-> [count |-> 0, sum |-> 0, len |-> 0, failures |-> 0],
           recv |-> 0, last |-> "none", hist |-> <<>>, shown |-> <<>>]

\* From the break out of the inner loop to the head of the outer loop: the
\* sample is appended, the line printed, the counter reset, the window cut.
Emitted(g) ==
    LET win == Append(g.xacts, g.count)
    IN  [g EXCEPT !.pc = "select",
                  !.xacts = IF WindowFull(Len(win)) THEN Tail(win) ELSE win,
                  !.log = [count |-> g.count, sum |-> SumSeq(win),
                           len |-> Len(win), failures |-> Len(g.failures)],
                  !.count = 0,
                  !.hist = Append(g.hist, g.count),
                  !.shown = win]

\* gather's variables once it has received a result of outcome o.
Received(g, o) ==
    [g EXCEPT !.pc = "poll",
              !.recv = @ + 1,
              !.last = o,
              !.failures = IF IsFailure(o) THEN Append(@, o) ELSE @,
              !.count = IF IsFailure(o) THEN @ ELSE @ + 1]

\* case res := <-results, up to the inner select.
GatherRecv(o) ==
    /\ gth.pc = "select"
    /\ gth.recv < MaxResults
    /\ gth' = Received(gth, o)
    /\ UNCHANGED <<engineVars, xactVars, storeVars, idc, wr>>

\* The inner select finds no tick: default.
GatherPollDefault ==
    /\ gth.pc = "poll"
    /\ gth' = [gth EXCEPT !.pc = "select"]
    /\ UNCHANGED <<engineVars, xactVars, storeVars, idc, wr>>

\* The inner select finds a tick: break out.
GatherPollTick ==
    /\ gth.pc = "poll"
    /\ Len(gth.hist) < MaxTicks
    /\ gth' = Emitted(gth)
    /\ UNCHANGED <<engineVars, xactVars, storeVars, idc, wr>>

\* case <-tick.C of the outer select: break out.
GatherTick ==
    /\ gth.pc = "select"
    /\ Len(gth.hist) < MaxTicks
    /\ gth' = Emitted(gth)
    /\ UNCHANGED <<engineVars, xactVars, storeVars, idc, wr>>

GatherNext ==
    \/ \E o \in ResultOutcomes : GatherRecv(o)
    \/ GatherPollDefault
    \/ GatherPollTick
    \/ GatherTick

GatherStart ==
    EngineIdle /\ XactIdle /\ StoreIdle /\ IdIdle /\ WriteIdle /\ GatherInit

GatherSpec == GatherStart /\ [][GatherNext]_vars

\* ----------------------------------------------- dispatch woken by tokens
\* dispatch of src/unnamed/part_000: ctrl carries bare tokens, and on a token
\* dispatch reads todo.Schedule again under the read lock.  The handler that
\* writes todo.Schedule before it sends the token is not in the sources: the
\* schedule read is any schedule a write may have left there.

\* Schedules dispatch may find in todo.Schedule.
TokenScheds == [workers : {1, 2}, frequency : {1, 2}, pause : BOOLEAN]

\* case <-ctrl: the schedule is compared with what dispatch applies, field by
\* field; the select loop is not left.
RecvToken(sched) ==
    /\ pc = "wait"
    /\ nSent < MaxCtrl
    /\ nSent' = nSent + 1
    /\ IF numWorker # sched.workers /\ pool = NilPool
          THEN \* pool.Config() on a nil pool panics
               /\ pc' = "crashed"
               /\ numWorker' = sched.workers
               /\ UNCHANGED <<pause, period, pool, maxConns, openPools, reqPause>>
          ELSE /\ numWorker' = sched.workers
               /\ IF numWorker # sched.workers /\ maxConns # sched.workers
                     THEN \E ok \in BOOLEAN : UpdatePoolConfig(sched.workers, ok)
                     ELSE UNCHANGED <<pool, maxConns, openPools>>
               /\ period' = sched.frequency
               /\ pause' = sched.pause
               /\ reqPause' = sched.pause
               /\ UNCHANGED pc
    /\ startPaused' = FALSE
    /\ UNCHANGED <<waitNextTick, toLaunch, batchN, launched, workers, wg,
                   watchers>>
    /\ UNCHANGED libVars

\* runXact of a worker that was given a nil pool: pool.Acquire panics.
WorkerPanic(w) ==
    /\ Alive
    /\ BagIn(w, workers)
    /\ w.st = "run"
    /\ w.pool = NilPool
    /\ pc' = "crashed"
    /\ UNCHANGED <<startPaused, numWorker, pause, waitNextTick, period, pool,
                   maxConns, openPools, toLaunch, batchN, launched, workers, wg,
                   watchers, nSent, reqPause>>
    /\ UNCHANGED libVars

TokenNext ==
    \/ BatchNext
    \/ \E w \in BagToSet(workers) : WorkerPanic(w)
    \/ \E sched \in TokenScheds : RecvToken(sched)

\* The goroutines keep running as in BatchFairness; tokens arrive or not.
TokenFairness ==
    /\ BatchFairness
    /\ WF_vars(\E w \in BagToSet(workers) : WorkerPanic(w))

TokenSpec == Init /\ [][TokenNext]_vars /\ TokenFairness

\* ------------------------------------------ one invocation, up to gather
\* worker of src/run.go: the result runXact returned is sent on results, where
\* gather receives it, whether runXact returned an error or not.
WorkerForward ==
    /\ xpc = "returned"
    /\ gth.pc = "select"
    /\ xpc' = "sent"
    /\ gth' = Received(gth, xOutcome)
    /\ UNCHANGED <<xIn, xNext, xOutcome, xErr, xLog, xHeld, xReleases,
                   engineVars, storeVars, idc, wr>>

ResultNext ==
    \/ XactNext
    \/ WorkerForward
    \/ GatherPollDefault
    \/ GatherPollTick
    \/ GatherTick

ResultStart ==
    EngineIdle /\ XactInit /\ StoreIdle /\ IdIdle /\ WriteIdle /\ GatherInit

ResultSpec == ResultStart /\ [][ResultNext]_vars

\* ================================================================= claims

\* Workers of the latest batch, and of earlier batches, still running.
CurWorkers == {w \in BagToSet(workers) : w.cur}
OldWorkers == {w \in BagToSet(workers) : ~w.cur}
\* The watcher of the latest batch has not had its done received.
CurWatcherOutstanding == \E w \in BagToSet(watchers) : w.cur

\* C1: in no reachable state are workers launched by two different cycles
\* both still running.
C1_NoOverlap == CurWorkers = {} \/ OldWorkers = {}

\* C2: the watcher of a cycle sends done only when no worker launched in that
\* cycle is left, a worker that has not yet called wg.Add included.
C2_DoneAfterBatch ==
    \A w \in BagToSet(watchers) : (w.cur /\ w.st = "send") => CurWorkers = {}

\* C3: dispatch replaces the pool only when no running worker was given the
\* pool that is closed.
C3_ResizeBetweenCycles ==
    [][pool' # pool => \A w \in BagToSet(workers) : w.pool # pool]_vars

\* C4: while not paused, dispatch leaves the waiting loop on a tick only after
\* the done of the current batch has been received in this wait.
C4_TickWaitsForDone ==
    [][(pc = "wait" /\ pc' = "top" /\ nSent' = nSent /\ ~pause)
          => ~CurWatcherOutstanding]_vars

\* C5: a control message that leaves dispatch not paused takes it to the head
\* of the outer loop, and from there the next step of dispatch launches a
\* batch: done, tick and ctrl are received in the waiting loop only.
C5_CtrlStartsCycle ==
    [][/\ (nSent' # nSent /\ pc' # "crashed" /\ ~pause') => pc' = "top"
       /\ (pc = "top" /\ ~pause /\ pc' \notin {"top", "crashed"})
             => (pc' = "launch" /\ toLaunch' = Jobs)
       /\ (nSent' # nSent
             \/ BagCardinality(watchers') < BagCardinality(watchers))
             => pc = "wait"]_vars

C5_Witness ==
    /\ pc = "launch" /\ toLaunch = {} /\ nSent > 0 /\ waitNextTick /\ ~pause

\* C6: each job of a batch is launched with the worker count that was in
\* effect when the launch of the batch began, and the worker count changes
\* only in the waiting loop, never during a launch.
LaunchUniform ==
    pc = "launch" => /\ batchN = numWorker
                     /\ \A j \in Jobs \ toLaunch : launched[j] = batchN
C6_CountFixedInBatch ==
    [] LaunchUniform /\ [][numWorker' # numWorker => pc = "wait"]_vars

C6_Witness ==
    /\ pc = "launch" /\ toLaunch = {} /\ batchN = 2 /\ nSent > 0
    /\ \A j \in Jobs : launched[j] = 2

\* C7: pause is the pause value of the last control message applied, and
\* while paused no invocation is launched.
C7_PauseFollowsSchedule ==
    /\ [](pause = reqPause)
    /\ [][pause => /\ pc' # "launch"
                    /\ BagCardinality(workers') <= BagCardinality(workers)]_vars

C7_Witness == pause /\ reqPause /\ pc = "wait" /\ workers # EmptyBag

\* C8: started with a paused schedule, dispatch launches no batch before a
\* control message has been applied.
C8_StartsPaused == startPaused => (pc # "launch" /\ workers = EmptyBag)

\* C9: dispatch never returns and the process never dies.
C9_NoTerminalState == pc \notin {"returned", "crashed"}

\* C10: the pool handle dispatch holds is never nil and never a closed pool,
\* a failed resize included.
C10_PoolUsable == pool # NilPool /\ pool \in openPools

\* Workers holding the result of a runXact that failed in Acquire or Begin.
FailedWorkers == {w \in BagToSet(workers) : w.st = "res" /\ w.err}
NumFailed == BagCardinality([w \in FailedWorkers |-> CopiesIn(w, workers)])

\* C11: a worker whose runXact failed in Acquire or Begin delivers its result
\* and calls wg.Done(); after such a failure a done event is received and a
\* later batch is launched.
C11_FailureDoesNotStall ==
    /\ [][NumFailed' < NumFailed => (wg' = wg - 1 /\ NumFailed' = NumFailed - 1)]_vars
    /\ (FailedWorkers # {}) ~> (pc = "wait" /\ ~waitNextTick)
    /\ (FailedWorkers # {}) ~> (pc = "launch")

C11_Witness ==
    /\ pc = "wait" /\ waitNextTick /\ wg = 1
    /\ \E w \in FailedWorkers : w.cur /\ workers = OneOf(w)
    /\ \E w \in BagToSet(watchers) : w.cur /\ w.st = "wait"

\* The statements sent on the transaction so far, and the terminating commands.
StmtsRun == SelectSeq(xLog, LAMBDA c : c[1] = "stmt")
EndsSent == SelectSeq(xLog, LAMBDA c : c[1] # "stmt")
SomeFailed == \E i \in 1..Len(xIn.fails) : xIn.fails[i]
Began == xIn.acquire /\ xIn.begin

\* C12: once the transaction has begun, every statement is executed, in order,
\* whatever failed before; the outcome is Rollback exactly when a statement
\* failed, and runXact returns no error.
C12_AllStatementsRun ==
    (xpc = "returned" /\ Began) =>
        /\ StmtsRun = [i \in 1..Len(xIn.fails) |-> <<"stmt", i>>]
        /\ (xOutcome = "rollback") = SomeFailed
        /\ (xOutcome = "commit") = ~SomeFailed
        /\ xErr = "nil"

C12_Witness ==
    /\ xpc = "returned" /\ Len(xIn.fails) = 3
    /\ ~xIn.fails[1] /\ xIn.fails[2] /\ ~xIn.fails[3]
    /\ Len(StmtsRun) = 3 /\ xOutcome = "rollback"

\* C13: a call whose transaction began issues exactly one terminating command,
\* after the last statement: Commit if every statement succeeded, Rollback
\* otherwise.
C13_OneTerminator ==
    /\ Len(EndsSent) <= 1
    /\ (xpc = "returned" /\ Began) =>
          /\ Len(xLog) = Len(xIn.fails) + 1
          /\ xLog[Len(xLog)] = <<(IF SomeFailed THEN "rollback" ELSE "commit"), 0>>
          /\ Len(EndsSent) = 1

C13_Witness ==
    /\ xpc = "returned" /\ Len(xIn.fails) = 2 /\ xIn.fails[1] /\ ~xIn.fails[2]
    /\ xLog = <<(<<"stmt", 1>>), (<<"stmt", 2>>), (<<"rollback", 0>>)>>

\* C14: a connection that was acquired is released exactly once on every exit
\* path, and a returned call holds no connection.
C14_ReleasedOnce ==
    /\ xReleases <= 1
    /\ xpc = "returned" =>
          /\ xHeld = 0
          /\ xReleases = (IF xIn.acquire THEN 1 ELSE 0)

C14_Witness ==
    /\ xpc = "returned" /\ xIn.acquire /\ ~xIn.begin
    /\ xReleases = 1 /\ xHeld = 0

\* C15: when Acquire or Begin fails, runXact returns the error, the outcome of
\* the result is the one it was created with, and neither a statement nor a
\* Commit or Rollback was sent.
C15_ShortCircuit ==
    (xpc \in {"release", "returned"} /\ ~Began) =>
        /\ xErr = (IF xIn.acquire THEN "begin" ELSE "acquire")
        /\ xOutcome = InitialOutcome
        /\ xLog = <<>>

C15_Witness ==
    /\ xpc = "returned" /\ xErr = "begin" /\ Len(xIn.fails) > 0
    /\ xOutcome = InitialOutcome /\ xLog = <<>>

\* A call of the store returns in this step.
Returns == ret' # ret
\* Handler h passes the unlocked test of its call in this step.
Passes(h) == calls[h] = NoCall /\ calls'[h] # NoCall
\* Handler h leaves its call in this step.
Leaves(h) == calls[h] # NoCall /\ calls'[h] = NoCall

\* C16: add of an id that is a key fails with "already exists", get, remove
\* and appendXact of an id that is no key fail with "not found", and a call
\* that fails leaves the map as it was.
C16_ConflictsLeaveStore ==
    [][/\ (Returns /\ ret'.res = "exists")
            => (store' = store /\ ret'.op = "add" /\ ret'.id \in DOMAIN store)
       /\ (Returns /\ ret'.res = "notfound")
            => /\ store' = store
               /\ ret'.op \in {"get", "remove", "append"}
               /\ ret'.id \notin DOMAIN store
       /\ \A h \in Handlers :
            Passes(h) => ((calls'[h].op = "add") # (calls'[h].id \in DOMAIN store))
      ]_vars

C16_Witness ==
    /\ ret.n = 2 /\ ret.op = "add" /\ ret.res = "exists"
    /\ ret.id = GenId(NewXact(<<"b">>))
    /\ ret.id \in DOMAIN store /\ store[ret.id] = NewXact(<<"b">>)

\* C17: the mutating calls are serialized, the test of each call included: an
\* add that writes finds its id absent, a remove or appendXact that deletes
\* finds its id present, as in a sequential order of the calls.
C17_Serialized ==
    [][\A h \in Handlers :
         /\ (calls[h].op = "add" /\ Leaves(h)) => calls[h].id \notin DOMAIN store
         /\ (calls[h].op = "remove" /\ Leaves(h)) => calls[h].id \in DOMAIN store
         /\ (calls[h].op = "append" /\ calls[h].pc = "write" /\ calls'[h].pc = "insert")
               => calls[h].id \in DOMAIN store
      ]_vars

\* C18: a reader that lists the map while an appendXact is the only call in
\* flight finds the job under exactly one of its old and its new key.
C18_ReKeyAtomic ==
    [][(Returns /\ ret'.op = "list") =>
          \A h \in Handlers :
             (calls[h].op = "append" /\ \A g \in Handlers \ {h} : calls[g] = NoCall)
                => LET old == calls[h].id
                       new == GenId(calls[h].x)
                   IN  IF old = new THEN old \in ret'.keys
                       ELSE (old \in ret'.keys) # (new \in ret'.keys)
      ]_vars

\* C19: while dispatch ranges over the job map, no call changes the map.
C19_RangeUnderLock == [][(ranging /\ ranging') => store' = store]_vars

\* C20: appendXact of a non-empty list gives the job a new id, of an empty list
\* the same id and the same xact; when it returns the map holds the xact under
\* the new id, not under the old one, and every other key is untouched.
C20_AppendReKeys ==
    [][\A h \in Handlers :
         /\ (Passes(h) /\ calls'[h].op = "append") =>
               LET old == calls'[h].id
                   cur == calls'[h].x
               IN  /\ Len(cur.st) > Len(store[old].st) => GenId(cur) # old
                   /\ Len(cur.st) = Len(store[old].st)
                         => (GenId(cur) = old /\ cur = store[old])
         /\ (calls[h].op = "append" /\ Leaves(h)) =>
               LET old == calls[h].id
                   new == GenId(calls[h].x)
               IN  /\ ret'.res = "ok"
                   /\ new \in DOMAIN store' /\ store'[new] = calls[h].x
                   /\ new # old => old \notin DOMAIN store'
                   /\ \A k \in DOMAIN store' \ {new} :
                         k \in DOMAIN store /\ store'[k] = store[k]
                   /\ DOMAIN store \subseteq DOMAIN store'
      ]_vars

C20_Witness ==
    /\ ret.op = "append" /\ ret.res = "ok" /\ ret.id \notin DOMAIN store
    /\ \E k \in DOMAIN store : store[k].st = <<"a", "b">> /\ k = GenId(store[k])

\* C21: a replace whose new statements have the id of another stored job fails
\* with a conflict, and the job it was asked to replace is still in the store.
C21_ReplaceConflictKeepsJobs ==
    [][(Returns /\ ret'.op = "replace" /\ ret'.res = "exists")
          => ret'.id \in DOMAIN store']_vars

\* C22: every entry of the job map is keyed by the id of the xact it holds,
\* the id genSource computes from its statements and outcome.
C22_KeyIsContentId ==
    /\ \A k \in DOMAIN store : k = GenId(store[k])
    /\ \A k \in DOMAIN TodoXacts : k = GenId(TodoXacts[k])

C22_Witness ==
    /\ ret.op = "replace" /\ ret.res = "ok" /\ ret.n = 3
    /\ \E k \in DOMAIN store : Len(store[k].st) = 2 /\ store[k].out = "rollback"

\* The statement texts of an xact after normalization, in order.
NormList(x) == [i \in 1..Len(x.st) |-> StmtText(x.st[i])]

\* C23: two xacts get the same id exactly when their statement texts are equal
\* after normalization, in the same order, and their outcomes are equal.
C23_SameIdIffSameContent ==
    (idc["a"].n > 0 /\ idc["b"].n > 0)
        => ((idc["a"].id = idc["b"].id)
               <=> (NormList(idc["a"]) = NormList(idc["b"])
                       /\ idc["a"].out = idc["b"].out))

\* C24: a schedule write that passed validation is never blocked forever on
\* its send: it is not waiting on ctrl once dispatch has returned.
C24_WriteNotBlockedForever == ~(wr.st = "sending" /\ pc = "returned")

\* C25: a schedule write with a worker count below 1 or an interval that
\* does not parse is rejected at the boundary: no control message of such a
\* write reaches dispatch.
C25_InvalidWriteRejected ==
    [][nSent' # nSent
          => (wr.req.workers >= 1
                 /\ (wr.req.frequency = "" \/ ~ParseDuration(wr.req.frequency).err))]_vars

\* C26: a successful load triggers a control signal: once loadRun has replaced
\* the run document its handler sends the loaded schedule on ctrl.
C26_LoadSignalsDispatch ==
    [][(wr.st = "load" /\ wr'.st # "load")
          => (wr'.st = "sending" /\ wr'.msg = wr'.doc.sched)]_vars

\* C27: the assignment of the loaded run excludes dispatch's range over the
\* job set, and the lock of the run document is the same, valid lock after it.
C27_LoadAtomic ==
    [][wr'.doc # wr.doc
          => (pc # "launch" /\ wr'.doc.m = wr.doc.m /\ wr'.doc.m # "nil")]_vars

\* C28: a batch launches numWorker invocations for each job, numWorker x |Jobs|
\* in all, and every launched invocation delivers its result: none is left
\* without a delivery by the end of the process.
C28_FanOutDelivered ==
    /\ [][(pc = "launch" /\ pc' = "wait")
             => \A j \in Jobs : launched[j] = numWorker]_vars
    /\ [](pc = "crashed" => workers = EmptyBag)

\* The last n elements of q, in order.
LastOf(q, n) == SubSeq(q, Len(q) - n + 1, Len(q))

\* C29: at every emission the window holds at most 60 samples, they are the
\* most recent samples in order, and the average printed is the sum of exactly
\* these samples divided by their number.
C29_WindowIsRecentMean ==
    Len(gth.hist) > 0
        => /\ Len(gth.shown) <= WindowCap
           /\ Len(gth.shown) = IF Len(gth.hist) < WindowCap THEN Len(gth.hist)
                                                           ELSE WindowCap
           /\ gth.shown = LastOf(gth.hist, Len(gth.shown))
           /\ gth.log.len = Len(gth.shown)
           /\ gth.log.sum = SumSeq(gth.shown)

C29_Witness ==
    /\ Len(gth.hist) = WindowCap + 1 /\ gth.pc = "select"
    /\ gth.hist[1] = 1 /\ gth.log.sum = 1 /\ gth.log.len = WindowCap

\* C30: a result with outcome Rollback goes to the failures list and any other
\* result to the one-second counter; the counter is 0 after each emission and
\* the failures list only grows, so at every emission the results received are
\* the sum of the instant counts emitted plus the failures.
C30_EveryResultInOneBucket ==
    /\ [](gth.pc # "idle"
             => /\ gth.recv = SumSeq(gth.hist) + gth.count + Len(gth.failures)
                /\ \A i \in 1..Len(gth.failures) : gth.failures[i] = "rollback")
    /\ [][/\ Len(gth.hist') > Len(gth.hist)
             => /\ gth'.count = 0
                /\ gth'.log.count = gth.count
                /\ gth'.log.failures = Len(gth.failures)
                /\ gth'.recv = SumSeq(gth'.hist) + gth'.log.failures
          /\ gth'.recv > gth.recv
             => IF gth'.last = "rollback"
                   THEN /\ gth'.failures = Append(gth.failures, gth'.last)
                        /\ gth'.count = gth.count
                   ELSE /\ gth'.failures = gth.failures
                        /\ gth'.count = gth.count + 1
          /\ Len(gth'.failures) >= Len(gth.failures)]_vars

C30_Witness ==
    /\ gth.recv = 2 /\ Len(gth.failures) = 1 /\ gth.count = 0 /\ gth.pc = "select"
    /\ Len(gth.hist) = 2 /\ SumSeq(gth.hist) = 1

\* C31: at most one completion watcher is outstanding: when dispatch starts a
\* watcher every earlier one has had its done received, and a done received
\* is that of the latest batch.
C31_OneWatcherOutstanding ==
    /\ [](BagCardinality(watchers) <= 1)
    /\ [][/\ (pc = "launch" /\ pc' = "wait") => watchers = EmptyBag
          /\ BagCardinality(watchers') < BagCardinality(watchers)
                => \A w \in BagToSet(watchers) :
                      CopiesIn(w, watchers') < CopiesIn(w, watchers) => w.cur]_vars

\* C32: in the token variant resume is live: when dispatch waits with pause
\* cleared by a control signal, a batch is eventually launched (or dispatch
\* is paused again, or the process has ended).
C32_ResumeIsLive ==
    (pc = "wait" /\ ~pause /\ nSent > 0) ~> (pc \in {"launch", "crashed"} \/ pause)

\* C33: after a load the job set the handlers of the store read and modify is
\* the job set dispatch ranges over.
C33_OneJobSet == TodoXacts = store

\* C34: appendXact leaves the number of jobs unchanged, also when the id of
\* the appended job is the id of another stored job: having deleted the old
\* key, it inserts under a key the map does not hold.
C34_AppendKeepsOthers ==
    [][\A h \in Handlers :
          (calls[h].op = "append" /\ calls[h].pc = "insert" /\ Leaves(h))
             => /\ NewKey(h) \notin DOMAIN store
                /\ Cardinality(DOMAIN store') = Cardinality(DOMAIN store) + 1]_vars

\* C35: the result of an invocation that failed to acquire a connection or to
\* begin its transaction has outcome Rollback: gather appends it to failures
\* and never counts it in the one-second counter.
C35_FailedNotCounted ==
    (xpc = "sent" /\ ~Began)
        => /\ gth.last = "rollback"
           /\ gth.failures = <<"rollback">>
           /\ gth.count = 0 /\ SumSeq(gth.hist) = 0
           /\ gth.log.count = 0

C35_Witness ==
    /\ xpc = "sent" /\ xErr = "begin" /\ Len(xIn.fails) > 0
    /\ Len(gth.failures) = 1 /\ Len(gth.hist) = 2 /\ gth.log.failures = 1

\* C36: when dispatch handles a control message, workers = 0 leaves the worker
\* count and the pool untouched, frequency = 0 leaves the ticker untouched,
\* and pause is taken from the message whatever its other fields: a message
\* that only sets workers or frequency resumes a paused dispatch.
C36_ZeroFieldsChangeNothing ==
    [][(nSent' # nSent /\ pc' # "crashed")
          => /\ wr.msg.workers = 0
                   => (numWorker' = numWorker /\ pool' = pool
                          /\ maxConns' = maxConns /\ openPools' = openPools)
             /\ wr.msg.workers > 0 => numWorker' = wr.msg.workers
             /\ wr.msg.frequency = 0 => period' = period
             /\ wr.msg.frequency > 0 => period' = wr.msg.frequency
             /\ pause' = wr.msg.pause]_vars

C36_Witness ==
    /\ wr.st = "sent" /\ wr.msg.workers = 0 /\ wr.msg.frequency = 2 /\ ~wr.msg.pause
    /\ reqPause = FALSE /\ nSent = 2 /\ numWorker = 2 /\ period = 2 /\ ~pause
    /\ pc = "top"

\* C37: in the loop of dispatch the worker count is at least 1: dispatch does
\* not start with less and no control message lowers it, so each job of a
\* batch gets at least one invocation and no pool is made with a size below 1.
C37_WorkersAtLeastOne ==
    /\ [](pc \notin {"start", "returned"} => numWorker >= 1)
    /\ [][/\ (pc = "launch" /\ pc' = "launch")
               => \A j \in Jobs : launched'[j] # launched[j] => launched'[j] >= 1
          /\ (pool' # pool /\ pool' # NilPool)
               => (maxConns' >= 1 /\ maxConns' = numWorker')]_vars

C37_Witness ==
    /\ nSent = MaxCtrl /\ numWorker = 1 /\ maxConns = 1 /\ pool # NilPool
    /\ pc = "launch" /\ \E j \in Jobs : launched[j] = 1

\* C38: once dispatch has handled an accepted schedule write, the schedule of
\* the run document, which the dump returns, is the schedule dispatch applies.
C38_DumpAgreesWithDispatch ==
    (nSent > 0 /\ pc # "crashed")
        => wr.doc.sched = [workers |-> numWorker, frequency |-> period,
                           pause |-> pause]

====
